---- MODULE Spec2Model ----
(***************************************************************************)
(* Model of the download orchestration of chasemarshall/spotifydownloader. *)
(*                                                                         *)
(* Two versions of the POST /api/download handler are modelled:            *)
(*   variant = "cli" : src/src/app/api/download/route.ts                   *)
(*                     (spotdl, else yt-dlp, else "no tools" error)        *)
(*   variant = "lib" : src/src/app/layout.tsx lines 107-615                *)
(*                     (yt-dlp, else play-dl then ytdl-core)               *)
(*                                                                         *)
(* One request is followed from the start of ReadableStream.start() to     *)
(* controller.close().  Every handler of the Node event loop (process      *)
(* data / close / error, timer, stream callbacks) is one action; the part  *)
(* of POST that runs after an await is resumed inside the action that      *)
(* settles the awaited promise, because promise continuations run as       *)
(* microtasks before the next event-loop callback.                         *)
(*                                                                         *)
(* Progress values are kept in hundredths of a percent (20% = 2000), so    *)
(* that 40 + p * 0.5 is exact for p with one decimal digit.                *)
(*                                                                         *)
(* Spec follows the download of one request, SpecFair adds what the event  *)
(* loop guarantees, SpecName follows the naming of the delivered file over *)
(* a range of request bodies, SpecPaths follows the working paths of       *)
(* requests that one host serves at the same time, SpecCancel follows a    *)
(* request of route.ts whose client may go away, SpecToken follows the     *)
(* token cache of lib/spotify.ts (src/unnamed/part_002), SpecClient the    *)
(* read loop of the page (src/unnamed/part_003), and SpecTrack a request   *)
(* of POST /api/track.                                                     *)
(***************************************************************************)
EXTENDS Integers, Sequences, FiniteSets, TLC

VARIABLES
  variant,     \* which version of the handler serves the request
  useSpotDl,   \* result of isSpotDlAvailable() on this host
  useYtDlp,    \* result of isYtDlpAvailable() on this host
  pc,          \* the await POST is suspended at ("start" before, "done" after)
  events,      \* records enqueued on the response stream, in order
  closed,      \* the controller takes no more chunks: controller.close() has
               \* been called (or, in SpecCancel, the consumer cancelled)
  calls,       \* per strategy call: its subprocess/stream, promise and timer
  disk,        \* the request's working area on disk: path -> content
  created,     \* paths this request (or its backends) created on disk
  invoked,     \* strategy calls started so far, in order
  outputPath,  \* the file POST expects the running strategy to produce
  uncaught     \* a handler threw out of sendEvent on a closed controller

\* the naming of the delivered file (sanitizedTitle of POST and the filename
\* of the complete event), followed on its own over a range of request bodies
VARIABLES
  artist,          \* the artist field of the request body, as characters
  title,           \* the title field of the request body, as characters
  sanitizedTitle,  \* const sanitizedTitle of POST
  filename,        \* the filename field of the complete event
  namePc           \* "idle", or how far the naming has run

nameVars == <<artist, title, sanitizedTitle, filename, namePc>>

\* the working paths of requests that are served at the same time by one
\* host, followed on their own
VARIABLES
  jobs,     \* per request: its place in POST and its tempDir, fileId, outputPath
  issued,   \* the values randomUUID() has returned so far
  tmp,      \* the files below tmpdir(): path and the request whose strategy wrote it
  touched   \* the file operations done so far: who did what to whose file

pathVars == <<jobs, issued, tmp, touched>>

\* the consumer of the response stream has gone away (the stream was
\* cancelled); only SpecCancel lets that happen
VARIABLES disconnected

\* the token cache of lib/spotify.ts, a module-level variable of the server
\* process, and the callers of getSpotifyToken(), followed on their own
VARIABLES
  cachedToken,  \* let cachedToken: NoToken or [token, expiresAt]
  clock,        \* the ticks of the wall clock that have passed
  credentials,  \* SPOTIFY_CLIENT_ID and SPOTIFY_CLIENT_SECRET are both set
  minted,       \* the number of access tokens the token endpoint has issued
  callers       \* per caller: how far its call of getSpotifyToken() has run

tokenVars == <<cachedToken, clock, credentials, minted, callers>>

\* the response stream between sendEvent of the server and the read loop of
\* startDownload in the page (src/unnamed/part_003), followed on its own
VARIABLES
  wire,     \* the characters enqueued by the server and not yet read
  emitted,  \* the stages of the events the server has enqueued, in order
  ended,    \* controller.close() has been called
  applied,  \* the stages the page has put into its status, in order
  reading   \* "idle", or where startDownload stands

clientVars == <<wire, emitted, ended, applied, reading>>

\* a request of POST /api/track (src/src/app/layout.tsx lines 74-105),
\* followed on its own
VARIABLES
  body,       \* what the request carries as its body
  trackPc,    \* "idle", or where POST and getTrackInfo stand
  contacted,  \* a request to Spotify has been sent
  answer      \* the response of POST: status and JSON body

trackVars == <<body, trackPc, contacted, answer>>

\* the variables a download step never touches
aside ==
  <<nameVars, pathVars, disconnected, tokenVars, clientVars,
                 trackVars, trackVars>>

\* the variables of the request whose download is followed
request == <<variant, useSpotDl, useYtDlp, pc, events, closed, calls, disk,
             created, invoked, outputPath, uncaught>>

vars == <<request, aside>>

\* no file is being named
NameIdle ==
  /\ artist = <<>>
  /\ title = <<>>
  /\ sanitizedTitle = <<>>
  /\ filename = <<>>
  /\ namePc = "idle"

\* no concurrent requests are followed
PathsIdle ==
  /\ jobs = <<>>
  /\ issued = {}
  /\ tmp = {}
  /\ touched = {}

\* no response is being read
ClientIdle ==
  /\ wire = <<>>
  /\ emitted = <<>>
  /\ ended = FALSE
  /\ applied = <<>>
  /\ reading = "idle"

\* no track is being resolved
TrackIdle ==
  /\ body = <<>>
  /\ trackPc = "idle"
  /\ contacted = FALSE
  /\ answer = <<>>

\* nobody asks for a token
TokenIdle ==
  /\ cachedToken = [token |-> 0, expiresAt |-> 0]
  /\ clock = 0
  /\ credentials = FALSE
  /\ minted = 0
  /\ callers = <<>>

----------------------------------------------------------------------------
(* Bounds *)

\* number of output chunks one subprocess emits
MaxChunks == 2

\* size of the media stream of ytdl-core, in units of its "progress" callback
StreamTotal == 4

----------------------------------------------------------------------------
(* Data *)

Pct(n) == n * 100

Variants == {"cli", "lib"}

CallNames == {"spotdl", "search1", "search2", "ytdlp", "playdl", "ytdlcore"}

\* the backend (strategy) a call belongs to
StrategyOf(c) ==
  CASE c = "spotdl"   -> "spotdl"
    [] c = "search1"  -> "yt-dlp"
    [] c = "search2"  -> "yt-dlp"
    [] c = "ytdlp"    -> "yt-dlp"
    [] c = "playdl"   -> "play-dl"
    [] c = "ytdlcore" -> "ytdl-core"

\* position of a backend in the handler's if / else-if chain (lower runs first)
Priority(v, s) ==
  IF v = "cli"
  THEN CASE s = "spotdl" -> 1 [] s = "yt-dlp" -> 2 [] OTHER -> 9
  ELSE CASE s = "yt-dlp" -> 1 [] s = "play-dl" -> 2 [] s = "ytdl-core" -> 3
         [] OTHER -> 9

Files == {"mp3", "webm", "m4a", "other"}
Paths == {"tempDir"} \cup Files

MsgNoTools    == "No download tools available. Please install spotdl: pip install spotdl"
MsgFailed     == "Failed to download audio. Please try again."
MsgFailedHint == "Failed to download audio. Install spotdl for better results: pip install spotdl"
MsgNotFound   == "Could not find this song. Install spotdl for better results: pip install spotdl"
MsgNotFoundYT == "Could not find this song on YouTube. Try a different track."
MsgLibFailed  == "Download failed. For best results, install yt-dlp locally or try a different track."
MsgThrown     == "Download failed"

\* a progress event that already names the file
EventWithFilename(stage, progress, message) ==
  [stage |-> stage, progress |-> progress, message |-> message,
   downloadUrl |-> "none", filename |-> "mp3"]

\* the data argument of sendEvent; absent optional fields are "none"
Event(stage, progress, message) ==
  [stage |-> stage, progress |-> progress, message |-> message,
   downloadUrl |-> "none", filename |-> "none"]

ErrorEvent(message) == Event("error", Pct(0), message)

CompleteEvent(bytes, ext) ==
  [stage |-> "complete", progress |-> Pct(100), message |-> "Download complete!",
   downloadUrl |-> bytes, filename |-> ext]

\* a chunk of subprocess output: the text "<int>%" or "<int>.<frac>%" when
\* pct holds (frac = -1: no decimal part), and the word "Downloaded" or not
ChunkInts  == {0, 50, 150}
ChunkFracs == {-1, 3}
Chunks ==
  [pct : {TRUE}, int : ChunkInts, frac : ChunkFracs, downloaded : BOOLEAN]
  \cup [pct : {FALSE}, int : {0}, frac : {-1}, downloaded : BOOLEAN]

\* state of one strategy call
Unstarted ==
  [status |-> "unstarted", settled |-> FALSE, timer |-> FALSE, killed |-> FALSE,
   lastProgress |-> 0, chunks |-> 0, videoId |-> FALSE, timedOut |-> FALSE,
   result |-> "pending", interval |-> FALSE, downloaded |-> 0, exit |-> -1,
   fileAtSettle |-> FALSE, readFault |-> FALSE, unlinkFault |-> FALSE,
   noMatch |-> FALSE, logged |-> FALSE]

\* spawn(...) plus the handlers and the setTimeout of a subprocess call
Spawned == [Unstarted EXCEPT !.status = "running", !.timer = TRUE]

\* a library call starts at its "await import(...)"
Importing == [Unstarted EXCEPT !.status = "importing"]

SubprocessCalls == {"spotdl", "search1", "search2", "ytdlp"}
DownloadProcs   == {"spotdl", "ytdlp"}
SearchProcs     == {"search1", "search2"}
LibraryCalls    == {"playdl", "ytdlcore"}

StartOf(c) == IF c \in LibraryCalls THEN Importing ELSE Spawned

----------------------------------------------------------------------------
(* sendEvent and the pieces of POST *)

\* controller.enqueue appends the record; on a closed controller it throws
\* and nothing is enqueued
SendEvent(evs, cl, e) == IF cl THEN evs ELSE Append(evs, e)

\* what POST leaves behind when it reaches its next await or returns
Post(evs, dsk, cl, p, sp, out) ==
  [events |-> evs, disk |-> dsk, closed |-> cl, pc |-> p, spawn |-> sp,
   outputPath |-> out]

\* Fail without its close() and return: POST runs on into the finalization,
\* where readFileSync of the missing file throws into the catch block
FailFallsThrough(evs, dsk, message) ==
  Post(evs \o <<ErrorEvent(message),
                Event("converting", Pct(95), "Finalizing MP3 file..."),
                ErrorEvent(MsgThrown)>>,
       dsk, TRUE, "done", "none", "none")

\* sendEvent(error); controller.close(); return
Fail(evs, dsk, message) ==
  Post(Append(evs, ErrorEvent(message)), dsk, TRUE, "done", "none", "none")

\* the catch block of POST
Catch(evs, dsk) == Fail(evs, dsk, MsgThrown)

\* rmdir(tempDir) succeeds only on an empty directory; errors are ignored
Rmdir(dsk) ==
  IF \A f \in Files : dsk[f] = "absent"
  THEN [dsk EXCEPT !["tempDir"] = "absent"]
  ELSE dsk

\* Finalize without the "converting" event
FinalizeNoConverting(v, evs, dsk, out, ext, readThrows, unlinkThrows) ==
  LET dsk1 == IF unlinkThrows THEN dsk
              ELSE IF v = "cli" THEN Rmdir([dsk EXCEPT ![out] = "absent"])
              ELSE [dsk EXCEPT ![out] = "absent"]
  IN IF readThrows
     THEN Catch(evs, dsk)
     ELSE Post(Append(evs, CompleteEvent(dsk[out], ext)), dsk1, TRUE, "done",
               "none", "none")

\* Finalize reading the file before it announces the "converting" stage
FinalizeReadFirst(v, evs, dsk, out, ext, readThrows, unlinkThrows) ==
  LET evs1 == Append(evs, Event("converting", Pct(95),
                IF v = "lib" /\ ext # "mp3" THEN "Finalizing audio file..."
                                           ELSE "Finalizing MP3 file..."))
      dsk1 == IF unlinkThrows THEN dsk
              ELSE IF v = "cli" THEN Rmdir([dsk EXCEPT ![out] = "absent"])
              ELSE [dsk EXCEPT ![out] = "absent"]
  IN IF readThrows
     THEN Catch(evs, dsk)
     ELSE Post(Append(evs1, CompleteEvent(dsk[out], ext)), dsk1, TRUE, "done",
               "none", "none")

\* Finalize that leaves the file it has read on disk
FinalizeNoUnlink(v, evs, dsk, out, ext, readThrows, unlinkThrows) ==
  LET evs1 == Append(evs, Event("converting", Pct(95),
                IF v = "lib" /\ ext # "mp3" THEN "Finalizing audio file..."
                                           ELSE "Finalizing MP3 file..."))
  IN IF readThrows
     THEN Catch(evs1, dsk)
     ELSE Post(Append(evs1, CompleteEvent(dsk[out], ext)), dsk, TRUE, "done",
               "none", "none")

\* "converting" event, readFileSync, unlinkSync (+ rmdir in the cli version),
\* "complete" event, controller.close()
Finalize(v, evs, dsk, out, ext, readThrows, unlinkThrows) ==
  LET evs1 == Append(evs, Event("converting", Pct(95),
                IF v = "lib" /\ ext # "mp3" THEN "Finalizing audio file..."
                                           ELSE "Finalizing MP3 file..."))
      dsk1 == IF unlinkThrows THEN dsk
              ELSE IF v = "cli" THEN Rmdir([dsk EXCEPT ![out] = "absent"])
              ELSE [dsk EXCEPT ![out] = "absent"]
  IN IF readThrows
     THEN Catch(evs1, dsk)
     ELSE Post(Append(evs1, CompleteEvent(dsk[out], ext)), dsk1, TRUE, "done",
               "none", "none")

----------------------------------------------------------------------------
(* Progress parsing of the subprocess strategies *)

Min(a, b) == IF a < b THEN a ELSE b

\* the number captured by /(\d+)%/ : the digits directly before the "%"
SpotDlMatch(ch) == IF ch.frac >= 0 THEN ch.frac ELSE ch.int

\* the number captured by /(\d+\.?\d*)%/, in tenths of a percent
YtDlpMatch(ch) == ch.int * 10 + (IF ch.frac >= 0 THEN ch.frac ELSE 0)

\* 40 + (progress * 0.5) for a progress in whole percent, in hundredths
SpotDlScaled(progress) == Pct(40) + progress * 50

\* 40 + (progress * 0.5) for a progress in tenths of a percent, in hundredths
YtDlpScaled(progress) == Pct(40) + progress * 5

\* parseProgress of spotdl without the Math.min(..., 100)
ParseSpotDlUnclamped(last, ch) ==
  LET progress == SpotDlMatch(ch)
      hit      == ch.pct /\ progress > last
      e1 == IF hit
            THEN <<Event("downloading", SpotDlScaled(progress), "Downloading...")>>
            ELSE <<>>
      e2 == IF ch.downloaded
            THEN <<Event("downloading", Pct(90), "Download complete, finalizing...")>>
            ELSE <<>>
  IN [lastProgress |-> IF hit THEN progress ELSE last, emits |-> e1 \o e2]

\* downloadWithSpotDl.parseProgress: the new lastProgress and the records
\* handed to onProgress, in order
ParseSpotDl(last, ch) ==
  LET progress == Min(SpotDlMatch(ch), 100)
      hit      == ch.pct /\ progress > last
      e1 == IF hit
            THEN <<Event("downloading", SpotDlScaled(progress), "Downloading...")>>
            ELSE <<>>
      e2 == IF ch.downloaded
            THEN <<Event("downloading", Pct(90), "Download complete, finalizing...")>>
            ELSE <<>>
  IN [lastProgress |-> IF hit THEN progress ELSE last, emits |-> e1 \o e2]

\* parseProgress of yt-dlp without the test "progress > lastProgress"
ParseYtDlpAlways(last, ch) ==
  LET progress == Min(YtDlpMatch(ch), 1000)
  IN [lastProgress |-> IF ch.pct /\ progress > last THEN progress ELSE last,
      emits |-> IF ch.pct
                THEN <<Event("downloading", YtDlpScaled(progress), "Downloading audio...")>>
                ELSE <<>>]

\* downloadWithYtDlp.parseProgress
ParseYtDlp(last, ch) ==
  LET progress == Min(YtDlpMatch(ch), 1000)
      hit      == ch.pct /\ progress > last
  IN [lastProgress |-> IF hit THEN progress ELSE last,
      emits |-> IF hit
                THEN <<Event("downloading", YtDlpScaled(progress), "Downloading audio...")>>
                ELSE <<>>]

ParseProgress(c, last, ch) ==
  IF c = "spotdl" THEN ParseSpotDl(last, ch) ELSE ParseYtDlp(last, ch)

----------------------------------------------------------------------------
(* POST, from one await to the next *)

\* NoTools with a "searching" event in front of the error
NoToolsSearching(evs, dsk) ==
  Fail(Append(evs, Event("searching", Pct(20), "Searching for audio...")),
       dsk, MsgNoTools)

\* the else branch of the cli version: no tool was found
NoTools(evs, dsk) == Fail(evs, dsk, MsgNoTools)

\* CliStart that reports the missing spotdl as a failure before it goes on
\* to yt-dlp
CliStartReportsSkip(sd, yd, evs, dsk) ==
  IF sd THEN
    Post(evs \o <<Event("searching", Pct(20), "Finding best audio match..."),
                  Event("downloading", Pct(40), "Starting download...")>>,
         dsk, FALSE, "awaitSpotDl", "spotdl", "none")
  ELSE IF yd THEN
    Post(evs \o <<ErrorEvent(MsgFailed),
                  Event("searching", Pct(20),
                        "Searching for audio on YouTube (fallback)...")>>,
         dsk, FALSE, "awaitSearch1", "search1", "none")
  ELSE Fail(evs, dsk, MsgNoTools)

\* the if / else-if chain of the cli version (route.ts), up to the first await
CliStart(sd, yd, evs, dsk) ==
  IF sd THEN
    Post(evs \o <<Event("searching", Pct(20), "Finding best audio match..."),
                  Event("downloading", Pct(40), "Starting download...")>>,
         dsk, FALSE, "awaitSpotDl", "spotdl", "none")
  ELSE IF yd THEN
    Post(Append(evs, Event("searching", Pct(20),
                             "Searching for audio on YouTube (fallback)...")),
         dsk, FALSE, "awaitSearch1", "search1", "none")
  ELSE NoTools(evs, dsk)

\* the if / else of the lib version (layout.tsx), up to the first await
LibStart(yd, evs, dsk) ==
  IF yd THEN
    Post(Append(evs, Event("searching", Pct(20), "Searching for audio on YouTube...")),
         dsk, FALSE, "awaitSearch1", "search1", "none")
  ELSE
    Post(Append(evs, Event("searching", Pct(20), "Searching for audio...")),
         dsk, FALSE, "awaitPlayDl", "playdl", "webm")

\* start(controller) up to its first await: the temp directory is made
\* unless it exists, the probes (sd, yd) select the branch
StartPost(v, sd, yd, evs, dsk, mkdirThrows) ==
  LET dsk1 == [dsk EXCEPT !["tempDir"] = "dir"]
  IN IF dsk["tempDir"] = "absent" /\ mkdirThrows THEN Catch(evs, dsk)
     ELSE IF v = "cli" THEN CliStart(sd, yd, evs, dsk1)
     ELSE LibStart(yd, evs, dsk1)

\* after await downloadWithSpotDl: path is the resolved value ("null" or a file)
AfterSpotDl(evs, dsk, path, readThrows, unlinkThrows) ==
  IF path = "null" \/ dsk[path] = "absent"
  THEN Fail(evs, dsk, MsgFailed)
  ELSE Finalize("cli", evs, dsk, path, "mp3", readThrows, unlinkThrows)

\* AfterSearch without the second search: a failed search is an error at once
AfterSearchNoRetry(v, c, evs, dsk, found) ==
  IF found
  THEN Post(Append(evs, Event("downloading", Pct(40),
                               "Found track! Starting download...")),
            dsk, FALSE, "awaitYtDlp", "ytdlp", "mp3")
  ELSE Fail(evs, dsk, IF v = "cli" THEN MsgNotFound ELSE MsgNotFoundYT)

\* AfterSearch that hands over to play-dl when both searches failed
AfterSearchFallback(v, c, evs, dsk, found) ==
  IF found
  THEN Post(Append(evs, Event("downloading", Pct(40),
                               "Found track! Starting download...")),
            dsk, FALSE, "awaitYtDlp", "ytdlp", "mp3")
  ELSE IF c = "search1"
  THEN Post(evs, dsk, FALSE, "awaitSearch2", "search2", "none")
  ELSE Post(evs, dsk, FALSE, "awaitPlayDl", "playdl", "webm")

\* after await searchYouTube(searchQuery), and after the one with altQuery
AfterSearch(v, c, evs, dsk, found) ==
  IF found
  THEN Post(Append(evs, Event("downloading", Pct(40),
                               "Found track! Starting download...")),
            dsk, FALSE, "awaitYtDlp", "ytdlp", "mp3")
  ELSE IF c = "search1"
  THEN Post(evs, dsk, FALSE, "awaitSearch2", "search2", "none")
  ELSE Fail(evs, dsk, IF v = "cli" THEN MsgNotFound ELSE MsgNotFoundYT)

\* AfterYtDlp without the existsSync(outputPath) test
AfterYtDlpNoExists(v, evs, dsk, success, readThrows, unlinkThrows) ==
  IF ~success
  THEN Fail(evs, dsk, IF v = "cli" THEN MsgFailedHint ELSE MsgFailed)
  ELSE Finalize(v, evs, dsk, "mp3", "mp3", readThrows, unlinkThrows)

\* after await downloadWithYtDlp
AfterYtDlp(v, evs, dsk, success, readThrows, unlinkThrows) ==
  IF ~success \/ dsk["mp3"] = "absent"
  THEN Fail(evs, dsk, IF v = "cli" THEN MsgFailedHint ELSE MsgFailed)
  ELSE Finalize(v, evs, dsk, "mp3", "mp3", readThrows, unlinkThrows)

\* AfterPlayDl without the test of play-dl's result: ytdl-core always runs
AfterPlayDlAlways(evs, dsk, success, readThrows, unlinkThrows) ==
  Post(evs, dsk, FALSE, "awaitYtdlCore", "ytdlcore", "m4a")

\* after await downloadWithPlayDl: ytdl-core is tried only if play-dl failed
AfterPlayDl(evs, dsk, success, readThrows, unlinkThrows) ==
  IF ~success \/ dsk["webm"] = "absent"
  THEN Post(evs, dsk, FALSE, "awaitYtdlCore", "ytdlcore", "m4a")
  ELSE Finalize("lib", evs, dsk, "webm", "webm", readThrows, unlinkThrows)

\* after await downloadWithYtdlCore
AfterYtdlCore(evs, dsk, success, readThrows, unlinkThrows) ==
  IF ~success \/ dsk["m4a"] = "absent"
  THEN Fail(evs, dsk, MsgLibFailed)
  ELSE Finalize("lib", evs, dsk, "m4a", "m4a", readThrows, unlinkThrows)

\* the continuation of POST when call c resolves with result
\* ("null"/"false" are "fail"; a path, an id or true is "ok")
Resume(v, c, evs, dsk, ok, readThrows, unlinkThrows) ==
  CASE c = "spotdl"   -> AfterSpotDl(evs, dsk, IF ok THEN "mp3" ELSE "null",
                                     readThrows, unlinkThrows)
    [] c = "search1"  -> AfterSearch(v, c, evs, dsk, ok)
    [] c = "search2"  -> AfterSearch(v, c, evs, dsk, ok)
    [] c = "ytdlp"    -> AfterYtDlp(v, evs, dsk, ok, readThrows, unlinkThrows)
    [] c = "playdl"   -> AfterPlayDl(evs, dsk, ok, readThrows, unlinkThrows)
    [] c = "ytdlcore" -> AfterYtdlCore(evs, dsk, ok, readThrows, unlinkThrows)

----------------------------------------------------------------------------
(* Actions *)

RECURSIVE SendAll(_, _, _)
SendAll(evs, cl, es) ==
  IF es = <<>> THEN evs
  ELSE SendAll(SendEvent(evs, cl, Head(es)), cl, Tail(es))

\* install what POST did up to its next await (r), on top of the handler's
\* own update of the calls (calls1)
Apply(r, calls1) ==
  /\ events' = r.events
  /\ disk' = r.disk
  /\ closed' = r.closed
  /\ pc' = r.pc
  /\ outputPath' = r.outputPath
  /\ calls' = IF r.spawn = "none" THEN calls1
              ELSE [calls1 EXCEPT ![r.spawn] = StartOf(r.spawn)]
  /\ invoked' = IF r.spawn = "none" THEN invoked ELSE Append(invoked, r.spawn)
  /\ created' = created \cup {p \in Paths : disk[p] = "absent" /\ r.disk[p] # "absent"}

\* the file POST looks for after call c (none after a search)
OutFile(c) ==
  CASE c \in {"spotdl", "ytdlp"} -> "mp3"
    [] c = "playdl"   -> "webm"
    [] c = "ytdlcore" -> "m4a"
    [] OTHER          -> "none"

\* POST resumed on a stream the consumer has cancelled: its first sendEvent
\* throws out of controller.enqueue, the sendEvent of the catch block throws
\* again and start() ends there; a continuation that sends nothing runs on
Cancelled(r, dsk) ==
  IF disconnected /\ r.events # events
  THEN Post(events, dsk, TRUE, "done", "none", "none")
  ELSE r

\* Settle with every resolve() taken, not only the first
SettleEvery(c, ok, calls1, dsk1, readThrows, unlinkThrows) ==
  Apply(Cancelled(Resume(variant, c, events, dsk1, ok, readThrows,
                         unlinkThrows), dsk1),
        [calls1 EXCEPT ![c].settled = TRUE,
                       ![c].result = IF ok THEN "ok" ELSE "fail",
                       ![c].fileAtSettle = (OutFile(c) # "none"
                                            /\ dsk1[OutFile(c)] # "absent"),
                       ![c].readFault = readThrows,
                       ![c].unlinkFault = unlinkThrows /\ ~readThrows])

\* resolve(...) of call c: the first resolve resumes POST, later ones are
\* no-ops.  fileAtSettle, readFault and unlinkFault record what the
\* environment did: whether the output file was on disk, whether
\* readFileSync threw, whether unlinkSync threw
Settle(c, ok, calls1, dsk1, readThrows, unlinkThrows) ==
  IF calls[c].settled
  THEN Apply(Post(events, dsk1, closed, pc, "none", outputPath), calls1)
  ELSE Apply(Cancelled(Resume(variant, c, events, dsk1, ok, readThrows,
                              unlinkThrows), dsk1),
             [calls1 EXCEPT ![c].settled = TRUE,
                            ![c].result = IF ok THEN "ok" ELSE "fail",
                            ![c].fileAtSettle = (OutFile(c) # "none"
                                                 /\ dsk1[OutFile(c)] # "absent"),
                            ![c].readFault = readThrows,
                            ![c].unlinkFault = unlinkThrows /\ ~readThrows])

Init ==
  /\ variant \in Variants
  /\ useSpotDl \in (IF variant = "cli" THEN BOOLEAN ELSE {FALSE})
  /\ useYtDlp \in BOOLEAN
  /\ pc = "start"
  /\ events = <<>>
  /\ closed = FALSE
  /\ calls = [c \in CallNames |-> Unstarted]
  /\ disk \in {[p \in Paths |-> IF p = "tempDir" THEN d ELSE "absent"] :
                 d \in (IF variant = "cli" THEN {"absent"} ELSE {"absent", "dir"})}
  /\ created = {}
  /\ invoked = <<>>
  /\ outputPath = "none"
  /\ uncaught = FALSE
  /\ disconnected = FALSE
  /\ NameIdle
  /\ PathsIdle
  /\ TokenIdle
  /\ ClientIdle
  /\ TrackIdle

\* ReadableStream.start(controller) runs up to its first await
Start ==
  /\ pc = "start"
  /\ \E mkdirThrows \in BOOLEAN :
       Apply(StartPost(variant, useSpotDl, useYtDlp, events, disk, mkdirThrows), calls)
  /\ UNCHANGED <<aside, variant, useSpotDl, useYtDlp, uncaught>>

\* proc.stdout / proc.stderr "data" of spotdl or of the yt-dlp download
ProcData(c) ==
  /\ c \in DownloadProcs
  /\ calls[c].status = "running"
  /\ calls[c].chunks < MaxChunks
  /\ \E ch \in Chunks :
       /\ c = "ytdlp" => ~ch.downloaded
       /\ LET r == ParseProgress(c, calls[c].lastProgress, ch)
          IN /\ calls' = [calls EXCEPT ![c].lastProgress = r.lastProgress,
                                       ![c].chunks = @ + 1]
             /\ events' = SendAll(events, closed, r.emits)
             /\ uncaught' = (uncaught \/ (closed /\ r.emits # <<>>))
  /\ UNCHANGED <<aside, variant, useSpotDl, useYtDlp, pc, closed, disk,
                 created, invoked, outputPath>>

\* proc.stdout "data" of searchYouTube: videoId += data.toString().trim()
SearchData(c) ==
  /\ c \in SearchProcs
  /\ calls[c].status = "running"
  /\ calls[c].chunks < MaxChunks
  /\ \E nonEmpty \in BOOLEAN :
       calls' = [calls EXCEPT ![c].videoId = @ \/ nonEmpty, ![c].chunks = @ + 1]
  /\ UNCHANGED <<aside, variant, useSpotDl, useYtDlp, pc, events, closed, disk,
                 created, invoked, outputPath, uncaught>>

\* what a subprocess has left on disk when it exits
Written(c, dsk, wroteMp3, wroteOther) ==
  IF c \in DownloadProcs
  THEN [dsk EXCEPT !["mp3"]   = IF wroteMp3 THEN c ELSE @,
                   !["other"] = IF wroteOther THEN c ELSE @]
  ELSE dsk

\* CloseOk without the test of the exit code
CloseOkAnyCode(c, code, call, dsk) ==
  CASE c = "spotdl"    -> dsk["mp3"] # "absent"
    [] c \in SearchProcs -> call.videoId
    [] c = "ytdlp"     -> TRUE

\* the value the "close" handler resolves with: is it a success
CloseOk(c, code, call, dsk) ==
  CASE c = "spotdl"    -> code = 0 /\ dsk["mp3"] # "absent"
    [] c \in SearchProcs -> code = 0 /\ call.videoId
    [] c = "ytdlp"     -> code = 0

\* the outcomes of readFileSync / unlinkSync that matter when call c
\* resolves: they are reached only if the call is the first to resolve, with
\* success, and its output file is on disk
Faults(c, ok, dsk) ==
  IF ok /\ ~calls[c].settled /\ OutFile(c) # "none" /\ dsk[OutFile(c)] # "absent"
  THEN BOOLEAN ELSE {FALSE}

\* what a subprocess can have written when it exits
Writes(c) == IF c \in DownloadProcs THEN BOOLEAN ELSE {FALSE}

\* proc.on("close")
ProcClose(c) ==
  /\ c \in SubprocessCalls
  /\ calls[c].status = "running"
  /\ \E code \in {0, 1}, wroteMp3 \in Writes(c), wroteOther \in Writes(c) :
       LET dsk1 == Written(c, disk, wroteMp3, wroteOther)
           ok   == CloseOk(c, code, calls[c], dsk1)
       IN \E readThrows \in Faults(c, ok, dsk1), unlinkThrows \in Faults(c, ok, dsk1) :
            Settle(c, ok,
                   [calls EXCEPT ![c].status = "exited", ![c].exit = code], dsk1,
                   readThrows, unlinkThrows)
  /\ UNCHANGED <<aside, variant, useSpotDl, useYtDlp, uncaught>>

\* proc.on("error"): the tool could not be spawned
ProcError(c) ==
  /\ c \in SubprocessCalls
  /\ calls[c].status = "running"
  /\ calls[c].chunks = 0
  /\ ~calls[c].killed
  /\ Settle(c, FALSE, [calls EXCEPT ![c].status = "exited"], disk, FALSE, FALSE)
  /\ UNCHANGED <<aside, variant, useSpotDl, useYtDlp, uncaught>>

\* Timeout that resolves the call but neither kills nor destroys anything
TimeoutNoKill(c) ==
  /\ calls[c].timer
  /\ Settle(c, FALSE,
            [calls EXCEPT ![c].timer = FALSE, ![c].timedOut = ~calls[c].settled],
            disk, FALSE, FALSE)
  /\ UNCHANGED <<aside, variant, useSpotDl, useYtDlp, uncaught>>

\* the setTimeout callback of a call; the timer is never cleared.
\* proc.kill() only sends the signal; stream.destroy() ends a library stream
Timeout(c) ==
  /\ calls[c].timer
  /\ LET live == calls[c].status \in {"running", "orphan"}
         calls1 ==
           [calls EXCEPT ![c].timer = FALSE,
                         ![c].timedOut = ~calls[c].settled,
                         ![c].interval = FALSE,
                         ![c].killed = @ \/ (c \in SubprocessCalls /\ live),
                         ![c].status = IF c \in LibraryCalls /\ live
                                       THEN "exited" ELSE @]
     IN Settle(c, FALSE, calls1, disk, FALSE, FALSE)
  /\ UNCHANGED <<aside, variant, useSpotDl, useYtDlp, uncaught>>

----------------------------------------------------------------------------
(* The library strategies of the "lib" version *)

\* 40 + (percent * 0.5) with percent = (downloaded / total) * 100, in hundredths
CoreScaled(downloaded, total) == Pct(40) + ((downloaded * Pct(100)) \div total) \div 2

\* the handler has no effect on POST: only the call changes
CallOnly(calls1) ==
  Apply(Post(events, disk, closed, pc, "none", outputPath), calls1)

\* "await import(...)" returns, then onProgress(30, "Searching YouTube...");
\* a failing import lands in the catch block and the call returns false
LibImport(c) ==
  /\ c \in LibraryCalls
  /\ calls[c].status = "importing"
  /\ \E ok \in BOOLEAN :
       IF ok
       THEN Apply(Post(SendEvent(events, closed,
                         Event("downloading", Pct(30), "Searching YouTube...")),
                       disk, closed, pc, "none", outputPath),
                  [calls EXCEPT ![c].status = "searching"])
       ELSE Settle(c, FALSE,
                   [calls EXCEPT ![c].status = "exited", ![c].logged = TRUE],
                   disk, FALSE, FALSE)
  /\ UNCHANGED <<aside, variant, useSpotDl, useYtDlp, uncaught>>

\* "await play.search(...)" returns or throws; an exception is logged by the
\* catch block of downloadWithPlayDl, an empty result is not
PlaySearch ==
  /\ calls["playdl"].status = "searching"
  /\ \E outcome \in {"throws", "empty", "found"} :
       IF outcome = "found"
       THEN Apply(Post(SendEvent(events, closed,
                         Event("downloading", Pct(40), "Found track! Starting download...")),
                       disk, closed, pc, "none", outputPath),
                  [calls EXCEPT !["playdl"].status = "opening"])
       ELSE Settle("playdl", FALSE,
                   [calls EXCEPT !["playdl"].status = "exited",
                                 !["playdl"].noMatch = (outcome = "empty"),
                                 !["playdl"].logged = (outcome = "throws")],
                   disk, FALSE, FALSE)
  /\ UNCHANGED <<aside, variant, useSpotDl, useYtDlp, uncaught>>

\* "await play.stream(video.url)" returns or throws; on return the write
\* stream is created, the interval and the 2 minute timer are set
PlayStream ==
  /\ calls["playdl"].status = "opening"
  /\ \E ok \in BOOLEAN :
       IF ok
       THEN Apply(Post(events, [disk EXCEPT !["webm"] = "playdl"], closed, pc,
                       "none", outputPath),
                  [calls EXCEPT !["playdl"].status = "running",
                                !["playdl"].timer = TRUE,
                                !["playdl"].interval = TRUE,
                                !["playdl"].lastProgress = 40])
       ELSE Settle("playdl", FALSE,
                   [calls EXCEPT !["playdl"].status = "exited",
                                 !["playdl"].logged = TRUE],
                   disk, FALSE, FALSE)
  /\ UNCHANGED <<aside, variant, useSpotDl, useYtDlp, uncaught>>

\* the setInterval callback of downloadWithPlayDl
PlayTick ==
  /\ calls["playdl"].interval
  /\ calls["playdl"].lastProgress < 90
  /\ LET lp == calls["playdl"].lastProgress + 5
     IN Apply(Post(SendEvent(events, closed,
                     Event("downloading", Pct(lp), "Downloading...")),
                   disk, closed, pc, "none", outputPath),
              [calls EXCEPT !["playdl"].lastProgress = lp])
  /\ UNCHANGED <<aside, variant, useSpotDl, useYtDlp, uncaught>>

\* LibStreamEnd without clearInterval(progressInterval)
LibStreamEndKeepsInterval(c) ==
  /\ c \in LibraryCalls
  /\ calls[c].status = "running"
  /\ \E how \in {"finish", "writeError", "streamError"} :
     \E readThrows \in Faults(c, how = "finish", disk),
        unlinkThrows \in Faults(c, how = "finish", disk) :
       Settle(c, how = "finish",
              [calls EXCEPT ![c].logged = (how # "finish"),
                            ![c].status = IF c = "ytdlcore" /\ how = "writeError"
                                          THEN "orphan" ELSE "exited"],
              disk, readThrows, unlinkThrows)
  /\ UNCHANGED <<aside, variant, useSpotDl, useYtDlp, uncaught>>

\* writeStream "finish" / writeStream "error" / source stream "error" of a
\* library call.  play-dl clears its interval in all three and destroys the
\* source stream in the first two; ytdl-core destroys nothing, so after a
\* write error its source stream keeps flowing ("orphan")
LibStreamEnd(c) ==
  /\ c \in LibraryCalls
  /\ calls[c].status = "running"
  /\ \E how \in {"finish", "writeError", "streamError"} :
     \E readThrows \in Faults(c, how = "finish", disk),
        unlinkThrows \in Faults(c, how = "finish", disk) :
       Settle(c, how = "finish",
              [calls EXCEPT ![c].interval = FALSE,
                            ![c].logged = (how # "finish"),
                            ![c].status = IF c = "ytdlcore" /\ how = "writeError"
                                          THEN "orphan" ELSE "exited"],
              disk, readThrows, unlinkThrows)
  /\ UNCHANGED <<aside, variant, useSpotDl, useYtDlp, uncaught>>

\* fetch(searchUrl) and response.text() of downloadWithYtdlCore, then the
\* video id patterns; with an id the stream and the write stream are created
CoreSearch ==
  /\ calls["ytdlcore"].status = "searching"
  /\ \E outcome \in {"throws", "noId", "found"} :
       IF outcome = "found"
       THEN Apply(Post(SendEvent(events, closed,
                         Event("downloading", Pct(40), "Found video, starting download...")),
                       [disk EXCEPT !["m4a"] = "ytdlcore"], closed, pc, "none",
                       outputPath),
                  [calls EXCEPT !["ytdlcore"].status = "running",
                                !["ytdlcore"].timer = TRUE])
       ELSE Settle("ytdlcore", FALSE,
                   [calls EXCEPT !["ytdlcore"].status = "exited",
                                 !["ytdlcore"].noMatch = (outcome = "noId"),
                                 !["ytdlcore"].logged = TRUE],
                   disk, FALSE, FALSE)
  /\ UNCHANGED <<aside, variant, useSpotDl, useYtDlp, uncaught>>

\* stream.on("progress") of downloadWithYtdlCore
CoreProgress ==
  /\ calls["ytdlcore"].status \in {"running", "orphan"}
  /\ \E d \in (calls["ytdlcore"].downloaded + 1) .. StreamTotal :
       /\ Apply(Post(SendEvent(events, closed,
                       Event("downloading", CoreScaled(d, StreamTotal), "Downloading...")),
                     disk, closed, pc, "none", outputPath),
                [calls EXCEPT !["ytdlcore"].downloaded = d])
       /\ uncaught' = (uncaught \/ closed)
  /\ UNCHANGED <<aside, variant, useSpotDl, useYtDlp>>

\* the source stream of an orphaned ytdl-core download ends
CoreDrained ==
  /\ calls["ytdlcore"].status = "orphan"
  /\ CallOnly([calls EXCEPT !["ytdlcore"].status = "exited"])
  /\ UNCHANGED <<aside, variant, useSpotDl, useYtDlp, uncaught>>

Next ==
  \/ Start
  \/ \E c \in CallNames : ProcData(c)
  \/ \E c \in CallNames : SearchData(c)
  \/ \E c \in CallNames : ProcClose(c)
  \/ \E c \in CallNames : ProcError(c)
  \/ \E c \in CallNames : Timeout(c)
  \/ \E c \in CallNames : LibImport(c)
  \/ PlaySearch
  \/ PlayStream
  \/ PlayTick
  \/ \E c \in CallNames : LibStreamEnd(c)
  \/ CoreSearch
  \/ CoreProgress
  \/ CoreDrained

Spec == Init /\ [][Next]_vars

----------------------------------------------------------------------------
(* Type invariant *)

TypeOK ==
  /\ variant \in Variants
  /\ pc \in {"start", "awaitSpotDl", "awaitSearch1", "awaitSearch2", "awaitYtDlp",
             "awaitPlayDl", "awaitYtdlCore", "done"}
  /\ closed \in BOOLEAN
  /\ disconnected \in BOOLEAN
  /\ ~disconnected => ((pc = "done") = closed)
  /\ \A i \in 1 .. Len(events) :
       events[i].stage \in {"searching", "downloading", "converting", "complete", "error"}

----------------------------------------------------------------------------
(* Vocabulary of the properties *)

Last(q) == q[Len(q)]

IsTerminal(e) == e.stage \in {"complete", "error"}

\* the backends each version knows, and whether the request may use them:
\* the command-line tools are probed, the libraries are always attempted
Strategies(v) ==
  IF v = "cli" THEN {"spotdl", "yt-dlp"} ELSE {"yt-dlp", "play-dl", "ytdl-core"}

Available(s) ==
  CASE s = "spotdl" -> useSpotDl
    [] s = "yt-dlp" -> useYtDlp
    [] OTHER        -> TRUE

InvokedStrategies == {StrategyOf(invoked[i]) : i \in 1 .. Len(invoked)}

\* available backends behind s in the chain that were never started
Untried(s) ==
  {t \in Strategies(variant) :
     /\ Priority(variant, t) > Priority(variant, s)
     /\ Available(t)
     /\ t \notin InvokedStrategies}

\* the query a call is made with: only the second search uses altQuery
QueryOf(c) == IF c = "search2" THEN "alt" ELSE "primary"

\* the call that produces the file of a backend
DownloadCall(s) ==
  CASE s = "spotdl"    -> "spotdl"
    [] s = "yt-dlp"    -> "ytdlp"
    [] s = "play-dl"   -> "playdl"
    [] s = "ytdl-core" -> "ytdlcore"

\* the await of POST that call c settles
AwaitOf(c) ==
  CASE c = "spotdl"   -> "awaitSpotDl"
    [] c = "search1"  -> "awaitSearch1"
    [] c = "search2"  -> "awaitSearch2"
    [] c = "ytdlp"    -> "awaitYtDlp"
    [] c = "playdl"   -> "awaitPlayDl"
    [] c = "ytdlcore" -> "awaitYtdlCore"

\* call d was started directly after call c
Follows(c, d) ==
  \E i \in 1 .. Len(invoked) - 1 : invoked[i] = c /\ invoked[i + 1] = d

\* the backend of call c did its part: the call resolved with success, its
\* output file was on disk and the file could be read
Succeeded(c) ==
  /\ calls[c].result = "ok"
  /\ calls[c].fileAtSettle
  /\ ~calls[c].readFault

----------------------------------------------------------------------------
(* Properties *)

\* C1: the progress values of the emitted events are non-decreasing and lie
\* in [0, 100], the terminal event included.
C1_ProgressMonotoneBounded ==
  \A i \in 1 .. Len(events) :
    /\ events[i].progress >= Pct(0)
    /\ events[i].progress <= Pct(100)
    /\ i > 1 => events[i - 1].progress <= events[i].progress

\* C2: a terminal event (complete or error) is always the last event of the
\* sequence, the stream is closed exactly when the sequence ends with one, and
\* nothing is appended afterwards: so a finished request has exactly one.
C2_OneTerminalLast ==
  /\ \A i \in 1 .. Len(events) : IsTerminal(events[i]) => i = Len(events)
  /\ closed <=> (events # <<>> /\ IsTerminal(Last(events)))

\* C2 witness: the stream was closed by a terminal event and a subprocess
\* wrote output afterwards (its handler ran into the closed controller)
C2_Witness ==
  /\ closed
  /\ uncaught
  /\ IsTerminal(Last(events))

\* C3: the first backend started is the first available one of the chain,
\* backends are started in ascending priority, and no backend is started
\* after another backend's download call has succeeded.
C3_PriorityOrder ==
  /\ invoked # <<>> =>
       \A t \in Strategies(variant) :
         Priority(variant, t) < Priority(variant, StrategyOf(invoked[1]))
           => ~Available(t)
  /\ \A i, j \in 1 .. Len(invoked) :
       i < j =>
         /\ Priority(variant, StrategyOf(invoked[i]))
              <= Priority(variant, StrategyOf(invoked[j]))
         /\ StrategyOf(invoked[i]) # StrategyOf(invoked[j])
              => calls[DownloadCall(StrategyOf(invoked[i]))].result # "ok"

\* C3 witness: play-dl succeeded, the request is complete and ytdl-core was
\* never started
C3_Witness ==
  /\ pc = "done"
  /\ calls["playdl"].result = "ok"
  /\ Last(events).stage = "complete"
  /\ invoked = <<"playdl">>

C6_SkipThenSuccess ==
  /\ (variant = "cli" /\ ~useSpotDl /\ Succeeded("ytdlp")) =>
       /\ Last(events) = CompleteEvent("ytdlp", "mp3")
       /\ \A i \in 1 .. Len(events) : events[i].stage # "error"
       /\ "spotdl" \notin InvokedStrategies
       /\ calls["spotdl"] = Unstarted
  /\ (variant = "lib" /\ ~useYtDlp /\ Succeeded("playdl")) =>
       /\ Last(events) = CompleteEvent("playdl", "webm")
       /\ \A i \in 1 .. Len(events) : events[i].stage # "error"
       /\ "yt-dlp" \notin InvokedStrategies
       /\ \A c \in SubprocessCalls : calls[c] = Unstarted

\* C6 witness: spotdl is missing and the yt-dlp download was finalized
C6_Witness ==
  /\ variant = "cli"
  /\ ~useSpotDl
  /\ Succeeded("ytdlp")
  /\ closed

C9_NothingLeftOnDisk ==
  closed => \A p \in created : disk[p] = "absent"

----------------------------------------------------------------------------
(* Stages and payload of the emitted events *)

\* position of a stage in the order searching, downloading, converting,
\* complete (error stands outside the order)
StageRank(stage) ==
  CASE stage = "searching"   -> 1
    [] stage = "downloading" -> 2
    [] stage = "converting"  -> 3
    [] stage = "complete"    -> 4
    [] OTHER                 -> 0

\* the stages that occur in the emitted sequence
StagesSeen == {events[i].stage : i \in 1 .. Len(events)}

\* C11: on a request that ended with the complete event, the stages occur in
\* the order searching, downloading, converting, complete: none of the four
\* is missing, no stage comes back after a later one, and the complete event
\* carries progress 100, a download URL and a file name.
C11_SuccessStageOrder ==
  (events # <<>> /\ Last(events).stage = "complete") =>
    /\ StagesSeen = {"searching", "downloading", "converting", "complete"}
    /\ events[1].stage = "searching"
    /\ \A i \in 1 .. Len(events) - 1 :
         StageRank(events[i].stage) <= StageRank(events[i + 1].stage)
    /\ Last(events).progress = Pct(100)
    /\ Last(events).downloadUrl # "none"
    /\ Last(events).filename # "none"

\* C11 witness: a successful request that reported several downloading events
C11_Witness ==
  /\ closed
  /\ Last(events).stage = "complete"
  /\ Cardinality({i \in 1 .. Len(events) : events[i].stage = "downloading"}) >= 3

\* the error messages with which POST reports that a strategy failed
StrategyFailures ==
  {MsgFailed, MsgFailedHint, MsgNotFound, MsgNotFoundYT, MsgLibFailed}

\* the stage of the event emitted before the one at position i
StageBefore(i) == IF i > 1 THEN events[i - 1].stage ELSE "none"

C13_ProgressInStageRange ==
  \A i \in 1 .. Len(events) :
    LET e == events[i]
    IN /\ e.stage = "searching" =>
            e.progress >= Pct(0) /\ e.progress <= Pct(20)
       /\ e.stage = "downloading" =>
            e.progress >= Pct(20) /\ e.progress <= Pct(90)
       /\ e.stage = "converting" =>
            e.progress >= Pct(90) /\ e.progress <= Pct(98)
       /\ e.stage = "complete" => e.progress = Pct(100)

\* C13 witness: spotdl printed a percentage above 100, which was reported as
\* a downloading event at 90, and the request went on to complete
C13_Witness ==
  /\ calls["spotdl"].lastProgress = 100
  /\ \E i \in 1 .. Len(events) :
       events[i].stage = "downloading" /\ events[i].progress = Pct(90)
  /\ Last(events).stage = "complete"

\* C14: the events follow the stages documented in the README: searching is
\* reported at 20, every downloading event lies within 40..90 (a strategy's
\* own percentage p being reported as 40 + p / 2), converting at 95 and
\* complete at 100.
C14_ReadmeStages ==
  \A i \in 1 .. Len(events) :
    LET e == events[i]
    IN /\ e.stage = "searching" => e.progress = Pct(20)
       /\ e.stage = "downloading" =>
            e.progress >= Pct(40) /\ e.progress <= Pct(90)
       /\ e.stage = "converting" => e.progress = Pct(95)
       /\ e.stage = "complete" => e.progress = Pct(100)

\* C15: the progress field of every emitted event is a whole number of
\* percent, also when the strategy printed a fractional percentage.
C15_IntegerProgress ==
  \A i \in 1 .. Len(events) : events[i].progress % Pct(1) = 0

\* C16: the downloadUrl and filename fields are present on the complete
\* event and on no other event.
C16_PayloadOnlyOnComplete ==
  \A i \in 1 .. Len(events) :
    /\ events[i].downloadUrl # "none" <=> events[i].stage = "complete"
    /\ events[i].filename # "none" <=> events[i].stage = "complete"

\* C16 witness: a finished request with a complete event after events of the
\* three other stages
C16_Witness ==
  /\ closed
  /\ Len(events) >= 4
  /\ Last(events).stage = "complete"
  /\ Last(events).downloadUrl # "none"
  /\ \A i \in 1 .. Len(events) - 1 : events[i].filename = "none"

----------------------------------------------------------------------------
(* Naming of the delivered file: sanitizedTitle and the filename field *)

\* longest repetition of a unit in a title, longest unit, longest artist
MaxRepeat == 52
MaxUnit   == 2
MaxArtist == 1

\* the second argument of slice(0, 100)
SliceLimit == 100

\* characters, one of each kind the regular expression tells apart; U+00A0
\* (no-break space) is matched by \s, U+00E9 is a letter outside a-z
AsciiLetters == {"a"}
Digits       == {"7"}
Whitespace   == {" ", "U+00A0"}
Alphabet     == AsciiLetters \cup Digits \cup Whitespace
                  \cup {"-", ".", "U+00E9"}

\* strings over the characters of A of length at most n
StringsUpTo(A, n) == UNION {[1 .. k -> A] : k \in 0 .. n}

\* the string u written n times
Repeat(u, n) == [i \in 1 .. n * Len(u) |-> u[((i - 1) % Len(u)) + 1]]

\* the request bodies followed: a short artist, and a title that is a unit
\* repeated a few times or often enough to reach the slice limit
Artists == StringsUpTo({"a", "."}, MaxArtist)
Titles  == {Repeat(u, n) : u \in StringsUpTo(Alphabet, MaxUnit) \ {<<>>},
                           n \in (0 .. 1) \cup (MaxRepeat - 3 .. MaxRepeat)}

\* the file formats a version of POST names the file with
Formats(v) == IF v = "cli" THEN {"mp3"} ELSE {"mp3", "webm", "m4a"}

FormatChars(ext) ==
  CASE ext = "mp3"  -> <<"m", "p", "3">>
    [] ext = "webm" -> <<"w", "e", "b", "m">>
    [] ext = "m4a"  -> <<"m", "4", "a">>

\* a character not matched by /[^a-zA-Z0-9\s-]/
Kept(ch) == ch \in AsciiLetters \cup Digits \cup Whitespace \cup {"-"}

\* s.replace(/[^a-zA-Z0-9\s-]/g, "")
Strip(s) == SelectSeq(s, Kept)

\* s.slice(0, n)
Slice(s, n) == SubSeq(s, 1, Min(Len(s), n))

\* `${artist} - ${title}`
Template(a, t) == a \o <<" ", "-", " ">> \o t

\* sanitizedTitle without the slice(0, 100)
SanitizeUncut(a, t) == Strip(Template(a, t))

\* `${artist} - ${title}`.replace(/[^a-zA-Z0-9\s-]/g, "").slice(0, 100)
Sanitize(a, t) == Slice(Strip(Template(a, t)), SliceLimit)

\* `${sanitizedTitle}.${fileFormat}` (`${sanitizedTitle}.mp3` in route.ts)
Filename(st, ext) == st \o <<".">> \o FormatChars(ext)

\* no request is being served
RequestIdle ==
  /\ pc = "start"
  /\ events = <<>>
  /\ closed = FALSE
  /\ calls = [c \in CallNames |-> Unstarted]
  /\ disk = [p \in Paths |-> "absent"]
  /\ created = {}
  /\ invoked = <<>>
  /\ outputPath = "none"
  /\ uncaught = FALSE
  /\ disconnected = FALSE

InitName ==
  /\ variant \in Variants
  /\ useSpotDl = FALSE
  /\ useYtDlp = FALSE
  /\ RequestIdle
  /\ PathsIdle
  /\ TokenIdle
  /\ ClientIdle
  /\ TrackIdle
  /\ artist \in Artists
  /\ title \in Titles
  /\ sanitizedTitle = <<>>
  /\ filename = <<>>
  /\ namePc = "body"

\* const sanitizedTitle = ... at the top of start()
SanitizeTitle ==
  /\ namePc = "body"
  /\ sanitizedTitle' = Sanitize(artist, title)
  /\ namePc' = "sanitized"
  /\ UNCHANGED <<request, pathVars, disconnected, tokenVars, clientVars,
                 trackVars, artist, title,
                 filename>>

\* filename: ... in the complete event
NameFile ==
  /\ namePc = "sanitized"
  /\ \E ext \in Formats(variant) : filename' = Filename(sanitizedTitle, ext)
  /\ namePc' = "named"
  /\ UNCHANGED <<request, pathVars, disconnected, tokenVars, clientVars,
                 trackVars, artist, title,
                 sanitizedTitle>>

NextName == SanitizeTitle \/ NameFile

SpecName == InitName /\ [][NextName]_vars

\* the part of a file name before its extension (before the last ".")
BaseOf(f) ==
  LET dots == {i \in 1 .. Len(f) : f[i] = "."}
      last == CHOOSE i \in dots : \A j \in dots : j <= i
  IN IF dots = {} THEN f ELSE SubSeq(f, 1, last - 1)

\* C17: the filename sent with the complete event is never empty, and its
\* base part (before the extension) consists only of ASCII letters, digits,
\* whitespace and hyphens and is at most 100 characters long.
C17_SafeFilename ==
  namePc = "named" =>
    /\ filename # <<>>
    /\ Len(BaseOf(filename)) <= 100
    /\ \A i \in 1 .. Len(BaseOf(filename)) :
         BaseOf(filename)[i] \in {"a", "7", " ", "U+00A0", "-"}
    /\ \E ext \in Formats(variant) :
         filename = BaseOf(filename) \o <<".">> \o FormatChars(ext)

\* C17 witness: a file was named for a body whose artist and title hold
\* characters that were removed and are longer than the limit after removal
C17_Witness ==
  /\ namePc = "named"
  /\ Len(Strip(Template(artist, title))) > SliceLimit
  /\ Len(Strip(Template(artist, title))) < Len(Template(artist, title))
  /\ Len(BaseOf(filename)) = SliceLimit

\* a subprocess that was spawned and has not exited, or a download stream
\* that was opened and has not ended or been destroyed
Alive(c) == calls[c].status \in {"running", "orphan"}

\* C18: within one request at most one subprocess or download stream is
\* alive at any time: a new one is started only after the previous one has
\* terminated, also after a timeout kill or a stream error.
C18_OneBackendAlive ==
  Cardinality({c \in CallNames : Alive(c)}) <= 1

----------------------------------------------------------------------------
(* Working paths of requests served at the same time *)

\* requests in flight together, values randomUUID() can return, and
\* different (sanitized) titles requested
MaxRequests == 2
MaxUuids    == 3
MaxTitles   == 2

Requests   == 1 .. MaxRequests
Uuids      == {<<"uuid", n>> : n \in 1 .. MaxUuids}
TitleNames == {<<"title", n>> : n \in 1 .. MaxTitles}

\* join(dir, `${stem}.${ext}`)
File(dir, stem, ext) == [dir |-> dir, stem |-> stem, ext |-> ext]

NoPath == File(<<>>, <<>>, "none")

\* join(tmpdir(), "spotify-dl")
TmpRoot == <<"tmp", "spotify-dl">>

\* const tempDir without randomUUID(): one directory for all requests
TempDirShared(v, id) == TmpRoot

\* const tempDir: one directory per request in route.ts, one for all
\* requests in layout.tsx
TempDir(v, id) == IF v = "cli" THEN Append(TmpRoot, id) ELSE TmpRoot

\* the strategy call POST starts with on this host ("none": no tool found)
FirstCall(v, sd, yd) ==
  IF v = "cli"
  THEN (IF sd THEN "spotdl" ELSE IF yd THEN "ytdlp" ELSE "none")
  ELSE (IF yd THEN "ytdlp" ELSE "playdl")

\* an output path that is built from the title in every case
OutputPathByTitle(v, c, dir, id, st) ==
  CASE c = "ytdlp"    -> File(dir, st, "mp3")
    [] c = "playdl"   -> File(dir, st, "webm")
    [] c = "ytdlcore" -> File(dir, st, "m4a")
    [] OTHER          -> NoPath

\* const outputPath of POST: the file the call c is told to write.  spotdl
\* is given the directory only and names its file itself
OutputPath(v, c, dir, id, st) ==
  CASE c = "ytdlp"    -> File(dir, IF v = "cli" THEN st ELSE id, "mp3")
    [] c = "playdl"   -> File(dir, id, "webm")
    [] c = "ytdlcore" -> File(dir, id, "m4a")
    [] OTHER          -> NoPath

NewJob(st) ==
  [phase |-> "new", sanitizedTitle |-> st, uuid |-> <<>>, call |-> "none",
   tempDir |-> <<>>, outputPath |-> NoPath]

InitPaths ==
  /\ variant \in Variants
  /\ useSpotDl \in (IF variant = "cli" THEN BOOLEAN ELSE {FALSE})
  /\ useYtDlp \in BOOLEAN
  /\ RequestIdle
  /\ NameIdle
  /\ TokenIdle
  /\ ClientIdle
  /\ TrackIdle
  /\ jobs \in [Requests -> {NewJob(st) : st \in TitleNames}]
  /\ issued = {}
  /\ tmp = {}
  /\ touched = {}

\* start() up to the first strategy call: randomUUID(), tempDir, outputPath
Begin(r) ==
  /\ jobs[r].phase = "new"
  /\ \E id \in Uuids \ issued :
       LET c   == FirstCall(variant, useSpotDl, useYtDlp)
           dir == TempDir(variant, id)
       IN /\ issued' = issued \cup {id}
          /\ jobs' = [jobs EXCEPT ![r] =
               [@ EXCEPT !.phase = IF c = "none" THEN "done" ELSE "started",
                         !.uuid = id, !.call = c, !.tempDir = dir,
                         !.outputPath = OutputPath(variant, c, dir, id,
                                                   jobs[r].sanitizedTitle)]]
  /\ UNCHANGED <<request, nameVars, disconnected, tokenVars, clientVars,
                 trackVars, tmp, touched>>

\* the file the running call of request r writes, spotdl naming it after
\* the track
Targets(r) ==
  IF jobs[r].call = "spotdl"
  THEN {File(jobs[r].tempDir, st, "mp3") : st \in TitleNames}
  ELSE {jobs[r].outputPath}

\* the strategy call of request r ends, having written its file or not;
\* after play-dl without a file POST goes on to ytdl-core with an .m4a path
Produce(r) ==
  /\ jobs[r].phase = "started"
  /\ \E wrote \in BOOLEAN, target \in Targets(r) :
       LET old == {f \in tmp : f.path = target}
       IN /\ tmp' = IF wrote
                    THEN (tmp \ old) \cup {[path |-> target, by |-> r]}
                    ELSE tmp
          /\ touched' = IF wrote
                        THEN touched \cup
                             {[req |-> r, op |-> "overwrite", by |-> f.by] : f \in old}
                        ELSE touched
          /\ jobs' = [jobs EXCEPT ![r] =
               IF @.call = "playdl" /\ ~wrote
               THEN [@ EXCEPT !.call = "ytdlcore",
                              !.outputPath =
                                 OutputPath(variant, "ytdlcore", jobs[r].tempDir,
                                            jobs[r].uuid, jobs[r].sanitizedTitle)]
               ELSE [@ EXCEPT !.phase = "produced"]]
  /\ UNCHANGED <<request, nameVars, disconnected, tokenVars, clientVars,
                 trackVars, issued>>

\* the files POST of request r may pick up: the first .mp3 of readdirSync(
\* tempDir) after spotdl, the file at outputPath otherwise
Found(r) ==
  IF jobs[r].call = "spotdl"
  THEN {f \in tmp : f.path.dir = jobs[r].tempDir /\ f.path.ext = "mp3"}
  ELSE {f \in tmp : f.path = jobs[r].outputPath}

\* readFileSync and unlinkSync of the produced file, or the error return
Collect(r) ==
  /\ jobs[r].phase = "produced"
  /\ IF Found(r) = {}
     THEN UNCHANGED <<tmp, touched>>
     ELSE \E f \in Found(r) :
            /\ tmp' = tmp \ {f}
            /\ touched' = touched \cup
                 {[req |-> r, op |-> "read", by |-> f.by],
                  [req |-> r, op |-> "delete", by |-> f.by]}
  /\ jobs' = [jobs EXCEPT ![r].phase = "done"]
  /\ UNCHANGED <<request, nameVars, disconnected, tokenVars, clientVars,
                 trackVars, issued>>

NextPaths == \E r \in Requests : Begin(r) \/ Produce(r) \/ Collect(r)

SpecPaths == InitPaths /\ [][NextPaths]_vars

\* C19: requests served at the same time never use the same working path:
\* the output path of each holds the identifier that was generated for it
\* alone, the paths of two requests differ, and no request reads, overwrites
\* or deletes a file written for another request, also when both ask for the
\* same artist and title.
C19_DisjointWorkingPaths ==
  /\ \A r \in Requests :
       jobs[r].outputPath # NoPath =>
         /\ jobs[r].uuid \in issued
         /\ jobs[r].outputPath.stem = jobs[r].uuid
              \/ jobs[r].outputPath.dir = Append(TmpRoot, jobs[r].uuid)
  /\ \A r, s \in Requests :
       (r # s /\ jobs[r].phase # "new" /\ jobs[s].phase # "new") =>
         /\ jobs[r].uuid # jobs[s].uuid
         /\ jobs[r].outputPath # NoPath =>
              jobs[r].outputPath # jobs[s].outputPath
  /\ \A t \in touched : t.by = t.req

\* C19 witness: two requests for the same title have both written their
\* file into the one directory of layout.tsx, and one has picked its file up
C19_Witness ==
  /\ variant = "lib"
  /\ jobs[1].sanitizedTitle = jobs[2].sanitizedTitle
  /\ jobs[1].phase = "done"
  /\ jobs[2].phase = "produced"
  /\ [req |-> 1, op |-> "read", by |-> 1] \in touched
  /\ \E f \in tmp : f.by = 2

----------------------------------------------------------------------------
(* Termination of a request *)

\* What the Node event loop guarantees by itself: start() runs, a pending
\* setTimeout callback is eventually called, and the import of an installed
\* module settles.  Whether a subprocess prints or exits and whether a
\* network call returns is up to the backend, so no fairness is assumed for
\* those steps.
SpecFair ==
  /\ Spec
  /\ WF_vars(Start)
  /\ \A c \in CallNames : WF_vars(Timeout(c))
  /\ \A c \in CallNames : WF_vars(LibImport(c))

\* C20: every request eventually emits a terminal event and closes the
\* response stream, whatever the backends do (a process that never exits or
\* prints nothing, a search or stream call that never returns).
C20_EventuallyClosed ==
  <>(closed /\ events # <<>> /\ IsTerminal(Last(events)))

----------------------------------------------------------------------------
(* Timeout budget, cancellation, messages, finalization *)

\* a strategy call that has begun its search or its transfer and has not
\* returned to POST
InFlight(c) ==
  /\ calls[c].status \in {"searching", "opening", "running"}
  /\ ~calls[c].settled

\* C21: a strategy call never outlasts its timeout budget, which runs from
\* the start of the call over the search phase and the transfer phase: while
\* the call is in flight its timeout is pending, and a call whose timeout
\* expired first has returned a failure.
C21_BudgetCoversCall ==
  \A c \in CallNames :
    /\ InFlight(c) => calls[c].timer
    /\ calls[c].timedOut => calls[c].result = "fail"

\* The consumer of the response goes away while the request of route.ts is
\* being served: the stream is cancelled.  The ReadableStream is built with
\* a start() only (no cancel()), and request.signal is not used
Disconnect ==
  /\ variant = "cli"
  /\ pc \notin {"start", "done"}
  /\ ~closed
  /\ closed' = TRUE
  /\ disconnected' = TRUE
  /\ UNCHANGED <<nameVars, pathVars, tokenVars, clientVars, trackVars,
                 variant, useSpotDl, useYtDlp, pc,
                 events, calls, disk, created, invoked, outputPath, uncaught>>

InitCancel == Init /\ variant = "cli"

NextCancel ==
  \/ Start
  \/ \E c \in CallNames : ProcData(c)
  \/ \E c \in CallNames : SearchData(c)
  \/ \E c \in CallNames : ProcClose(c)
  \/ \E c \in CallNames : ProcError(c)
  \/ \E c \in CallNames : Timeout(c)
  \/ Disconnect

\* a request of route.ts whose client may disconnect at any time
SpecCancel == InitCancel /\ [][NextCancel]_vars

\* C22: when the client has disconnected while a strategy is in flight, the
\* subprocess of that request has been cancelled: no subprocess of a
\* disconnected request runs on without having been killed.
C22_DisconnectCancels ==
  disconnected =>
    \A c \in CallNames : calls[c].status = "running" => calls[c].killed

\* the search of call c ended by itself without a match: a yt-dlp search
\* that exited with code 0 and printed no id, an empty play.search result,
\* a results page without a video id
NoMatch(c) ==
  IF c \in SearchProcs
  THEN calls[c].exit = 0 /\ ~calls[c].videoId /\ ~calls[c].timedOut
  ELSE calls[c].noMatch

\* what the error messages name

\* C23: when every strategy was skipped or failed, the error message names
\* a not-found reason whenever the last search made found no match, and it
\* names the more capable backend that is missing on the host whenever
\* there is one (spotdl for route.ts, yt-dlp for layout.tsx).
C23_ErrorMessagePreference ==
  (closed /\ events # <<>> /\ Last(events).stage = "error"
          /\ Last(events).message \in StrategyFailures \cup {MsgNoTools}) =>
    /\ (invoked # <<>> /\ NoMatch(Last(invoked))) =>
         Last(events).message \in {MsgNotFound, MsgNotFoundYT}
    /\ (variant = "cli" /\ ~useSpotDl) =>
         Last(events).message \in {MsgNoTools, MsgFailedHint, MsgNotFound}
    /\ (variant = "lib" /\ ~useYtDlp) => Last(events).message = MsgLibFailed

\* C24: when the complete event has been emitted, the output file of the
\* strategy that succeeded had been read (the event carries its content) and
\* has been deleted from disk, unless the delete failed; a failed delete
\* leaves the file but does not keep the complete event from being emitted.
C24_ReadDeleteThenComplete ==
  (events # <<>> /\ Last(events).stage = "complete") =>
    \E c \in CallNames :
      /\ Succeeded(c)
      /\ Last(events).downloadUrl \notin {"none", "absent"}
      /\ disk[OutFile(c)] = "absent" <=> ~calls[c].unlinkFault

\* C24 witness: the complete event was emitted although unlinkSync threw
C24_Witness ==
  /\ closed
  /\ Last(events).stage = "complete"
  /\ \E c \in CallNames :
       Succeeded(c) /\ calls[c].unlinkFault /\ disk[OutFile(c)] # "absent"

\* the step in which download process c hands one chunk of output to
\* parseProgress
ChunkStep(c) == calls'[c].chunks = calls[c].chunks + 1

\* the events that the current step has put on the stream
Emitted == SubSeq(events', Len(events) + 1, Len(events'))

C26_SuccessIffExitZeroAndFile ==
  \A c \in DownloadProcs :
    calls[c].settled =>
      ("converting" \in StagesSeen
         <=> (calls[c].exit = 0 /\ ~calls[c].timedOut /\ calls[c].fileAtSettle))

\* C26 witness: yt-dlp exited with code 0 without leaving the output file,
\* and the request ended with the error event
C26_Witness ==
  /\ calls["ytdlp"].settled
  /\ calls["ytdlp"].exit = 0
  /\ ~calls["ytdlp"].timedOut
  /\ ~calls["ytdlp"].fileAtSettle
  /\ closed
  /\ Last(events).stage = "error"

----------------------------------------------------------------------------
(* Logging of failures *)

\* C29: every strategy call that has ended in a failure has written a log
\* record (console.error).
C29_FailuresLogged ==
  \A c \in CallNames :
    (calls[c].settled /\ calls[c].result = "fail") => calls[c].logged

----------------------------------------------------------------------------
(* The ticker of downloadWithPlayDl *)

\* C30: a step of the running play-dl download that changes lastProgress
\* raises it by 5 to a value from 45 to 90 and reports exactly that value;
\* once the call has settled lastProgress no longer changes (no further
\* progress callback); and a call that found no search result has failed
\* without a stream, a file or a ticker.
C30_HeuristicProgress ==
  [][LET p == calls["playdl"]
         q == calls'["playdl"]
     IN  /\ (p.status = "running" /\ q.lastProgress # p.lastProgress) =>
              /\ q.lastProgress = p.lastProgress + 5
              /\ q.lastProgress \in 45..90
              /\ Emitted = <<Event("downloading", Pct(q.lastProgress),
                                   "Downloading...")>>
         /\ p.settled => q.lastProgress = p.lastProgress
         /\ q.noMatch =>
              /\ q.result = "fail"
              /\ q.lastProgress = 0
              /\ ~q.interval
              /\ disk'["webm"] = "absent"
    ]_vars

\* the ticker has run up to 90 and the call has settled
C30_Witness ==
  /\ calls["playdl"].settled
  /\ calls["playdl"].lastProgress = 90

----------------------------------------------------------------------------
(* Handlers that outlive their call *)

\* C32: serving a request of route.ts, no handler calls sendEvent on the
\* controller after controller.close().
C32_NoSendAfterClose ==
  variant = "cli" => ~uncaught

\* C33: a subprocess call that has settled stays settled with the same
\* result, and a close or error of its process or the firing of its timer
\* after that changes neither the events of the request nor where POST
\* stands; a call settled by its timer has failed, and a call settled by
\* the close of its process with a nonzero code has failed.
C33_SettlesOnce ==
  [][\A c \in SubprocessCalls :
       LET old == calls[c]
           new == calls'[c]
       IN  /\ old.settled =>
                /\ new.settled
                /\ new.result = old.result
                /\ new.timedOut = old.timedOut
                /\ (new.status # old.status \/ new.timer # old.timer) =>
                     /\ events' = events
                     /\ pc' = pc
                     /\ closed' = closed
                     /\ invoked' = invoked
           /\ (~old.settled /\ new.settled) =>
                /\ new.timedOut => new.result = "fail"
                /\ new.exit = 1 => new.result = "fail"
    ]_vars

\* the first search was settled by its timer and its process closed later;
\* the second search succeeded and its timer fired later
C33_Witness ==
  /\ calls["search1"].timedOut
  /\ calls["search1"].status = "exited"
  /\ calls["search2"].result = "ok"
  /\ ~calls["search2"].timer

----------------------------------------------------------------------------
(* The file a request delivers *)

\* C34: the file a request reads for its complete event was written by the
\* strategy of that same request; after spotdl, every .mp3 that readdirSync
\* of the request's directory can return was written by that request.
C34_OwnFileDelivered ==
  /\ \A t \in touched : t.op = "read" => t.by = t.req
  /\ \A r \in Requests :
       (jobs[r].call = "spotdl" /\ jobs[r].phase = "produced") =>
         \A f \in Found(r) : f.by = r

\* two requests for the same title were served by spotdl at the same time:
\* one has delivered its file while the file of the other was on disk
C34_Witness ==
  \E r, s \in Requests :
    /\ r # s
    /\ jobs[r].call = "spotdl"
    /\ jobs[s].call = "spotdl"
    /\ jobs[r].sanitizedTitle = jobs[s].sanitizedTitle
    /\ [req |-> r, op |-> "read", by |-> r] \in touched
    /\ \E f \in tmp : f.by = s

----------------------------------------------------------------------------
(* The token cache of lib/spotify.ts.  getSpotifyToken() runs up to its    *)
(* first await in the step of its caller; each await ends in a step of its *)
(* own, so calls that are in flight together interleave at the awaits.     *)
(* The clock moves in steps of the safety margin of the cache (60 s).      *)

\* the callers of getSpotifyToken() that may be in flight together
MaxCallers == 2

\* the clock ticks that are followed
MaxTicks == 3

\* the access tokens the token endpoint issues
MaxMinted == 2

\* expires_in of a token response is at most this many margins
MaxGrant == 2

\* the 60 of (data.expires_in - 60), in seconds
Margin == 60

\* the 1000 of (data.expires_in - 60) * 1000
MsPerSecond == 1000

Callers == 1..MaxCallers

\* let cachedToken = null
NoToken == [token |-> 0, expiresAt |-> 0]

\* Date.now() after t ticks
NowAt(t) == t * Margin * MsPerSecond

\* data.expires_in of a token response
Grants == {k * Margin : k \in 0..MaxGrant}

\* a caller that has not called yet
\* no response of the token endpoint at hand
NoData == [access_token |-> 0, expires_in |-> 0]

\* a caller that has not called yet: where its call stands, the token it
\* has returned, the response it parses, and what its call has met (it has
\* sent a request; it found an expired token in the cache)
Resting ==
  [pc |-> "idle", result |-> 0, data |-> NoData, requested |-> FALSE,
   refresh |-> FALSE]

\* cachedToken && Date.now() < cachedToken.expiresAt, with <= for <
FreshInclusive(cache, now) ==
  /\ cache # NoToken
  /\ now <= cache.expiresAt

\* cachedToken && Date.now() < cachedToken.expiresAt
Fresh(cache, now) ==
  /\ cache # NoToken
  /\ now < cache.expiresAt

InitToken ==
  /\ variant = "lib"
  /\ useSpotDl = FALSE
  /\ useYtDlp = FALSE
  /\ RequestIdle
  /\ NameIdle
  /\ PathsIdle
  /\ ClientIdle
  /\ TrackIdle
  /\ cachedToken = NoToken
  /\ clock = 0
  /\ credentials \in BOOLEAN
  /\ minted = 0
  /\ callers = [c \in Callers |-> Resting]

\* time passes
Tick ==
  /\ clock < MaxTicks
  /\ clock' = clock + 1
  /\ UNCHANGED <<request, nameVars, pathVars, disconnected, clientVars,
                 trackVars, cachedToken,
                 credentials, minted, callers>>

\* getSpotifyToken() from its call to its first await: the cached token is
\* returned, or the missing credentials throw, or the request is sent
GetSpotifyToken(c) ==
  /\ callers[c].pc \in {"idle", "returned", "thrown"}
  /\ \/ Fresh(cachedToken, NowAt(clock))
     \/ ~credentials
     \/ minted + Cardinality({d \in Callers : callers[d].pc = "fetching"})
          < MaxMinted
  /\ LET call == [Resting EXCEPT !.refresh = (cachedToken # NoToken)]
     IN  callers' = [callers EXCEPT ![c] =
           IF Fresh(cachedToken, NowAt(clock))
           THEN [Resting EXCEPT !.pc = "returned",
                                !.result = cachedToken.token]
           ELSE IF ~credentials
           THEN [call EXCEPT !.pc = "thrown"]
           ELSE [call EXCEPT !.pc = "fetching", !.requested = TRUE]]
  /\ UNCHANGED <<request, nameVars, pathVars, disconnected, clientVars,
                 trackVars, cachedToken,
                 clock, credentials, minted>>

\* await fetch(...) with a failure emptying the cache
RespondInvalidates(c) ==
  /\ callers[c].pc = "fetching"
  /\ \/ \E expires_in \in Grants :
          /\ callers' = [callers EXCEPT ![c].pc = "parsing",
                                        ![c].data =
                            [access_token |-> minted + 1,
                             expires_in |-> expires_in]]
          /\ minted' = minted + 1
          /\ UNCHANGED cachedToken
     \/ /\ callers' = [callers EXCEPT ![c].pc = "thrown"]
        /\ cachedToken' = NoToken
        /\ UNCHANGED minted
  /\ UNCHANGED <<request, nameVars, pathVars, disconnected, clientVars,
                 trackVars, clock,
                 credentials>>

\* await fetch(...) settles: the response is ok, or it is not ok (or fetch
\* itself rejects) and getSpotifyToken() throws
Respond(c) ==
  /\ callers[c].pc = "fetching"
  /\ \/ \E expires_in \in Grants :
          /\ callers' = [callers EXCEPT ![c].pc = "parsing",
                                        ![c].data =
                            [access_token |-> minted + 1,
                             expires_in |-> expires_in]]
          /\ minted' = minted + 1
          /\ UNCHANGED cachedToken
     \/ /\ callers' = [callers EXCEPT ![c].pc = "thrown"]
        /\ UNCHANGED <<cachedToken, minted>>
  /\ UNCHANGED <<request, nameVars, pathVars, disconnected, clientVars,
                 trackVars, clock,
                 credentials>>

\* await response.json() settles: the token of the response is stored with
\* its expiry and returned, or the body does not parse
Parse(c) ==
  /\ callers[c].pc = "parsing"
  /\ \/ LET data == callers[c].data
         IN  /\ cachedToken' =
                   [token |-> data.access_token,
                    expiresAt |-> NowAt(clock)
                                    + (data.expires_in - Margin) * MsPerSecond]
             /\ callers' = [callers EXCEPT ![c].pc = "returned",
                                           ![c].result = data.access_token,
                                           ![c].data = NoData]
     \/ /\ callers' = [callers EXCEPT ![c].pc = "thrown", ![c].data = NoData]
        /\ UNCHANGED cachedToken
  /\ UNCHANGED <<request, nameVars, pathVars, disconnected, clientVars,
                 trackVars, clock,
                 credentials, minted>>

NextToken ==
  \/ Tick
  \/ \E c \in Callers : GetSpotifyToken(c)
  \/ \E c \in Callers : Respond(c)
  \/ \E c \in Callers : Parse(c)

SpecToken == InitToken /\ [][NextToken]_vars

\* C27: a call of getSpotifyToken() returns the token of the cache, and
\* sends no request, exactly when at the call a token is cached and the
\* time is before its expiresAt; otherwise it sends a request (or throws),
\* and the call that returns after its request returns the token of the
\* response, a token that was not in the cache, and stores it with the
\* expiry computed from the response.
C27_CachedIffFresh ==
  [][\A c \in DOMAIN callers :
       LET fresh == /\ cachedToken # NoToken
                    /\ NowAt(clock) < cachedToken.expiresAt
           k     == callers'[c]
           called == /\ callers[c].pc \notin {"fetching", "parsing"}
                     /\ k # callers[c]
       IN  /\ called =>
                /\ fresh <=> (k.pc = "returned" /\ ~k.requested)
                /\ fresh => /\ k.result = cachedToken.token
                            /\ cachedToken' = cachedToken
                /\ ~fresh =>
                     k.pc = (IF credentials THEN "fetching" ELSE "thrown")
                /\ k.pc = "fetching" <=> k.requested
           /\ (callers[c].pc = "parsing" /\ k.pc = "returned") =>
                /\ k.requested
                /\ k.result = callers[c].data.access_token
                /\ k.result # cachedToken.token
                /\ cachedToken' =
                     [token |-> k.result,
                      expiresAt |-> NowAt(clock')
                        + (callers[c].data.expires_in - Margin) * MsPerSecond]
     ]_vars

\* one call was answered from the cache and another one has replaced a
\* token that had expired
C27_Witness ==
  \E c, d \in DOMAIN callers :
    /\ callers[c].pc = "returned"
    /\ ~callers[c].requested
    /\ callers[d].pc = "returned"
    /\ callers[d].requested
    /\ callers[d].refresh

\* C28: the step in which a call of getSpotifyToken() throws leaves
\* cachedToken as it was, and a call that has thrown has returned no token.
C28_FailureKeepsCache ==
  [][\A c \in DOMAIN callers :
       (callers'[c].pc = "thrown" /\ callers'[c] # callers[c]) =>
         /\ cachedToken' = cachedToken
         /\ callers'[c].result = 0]_vars

\* a call has thrown after its request, with a token in the cache
C28_Witness ==
  \E c \in DOMAIN callers :
    /\ callers[c].pc = "thrown"
    /\ callers[c].requested
    /\ cachedToken # NoToken

----------------------------------------------------------------------------
(* The response stream as the page reads it (src/unnamed/part_003).  The   *)
(* server enqueues "data: " + JSON.stringify(data) + "\n\n" per event; a   *)
(* read of the page returns any non-empty prefix of what is in transit.    *)
(* The JSON text of an event is kept as three characters: "{", the stage,  *)
(* "}".                                                                    *)

\* the events one response carries
MaxEvents == 2

\* the characters of the literal "data: "
DataPrefix == <<"d", "a", "t", "a", ":", " ">>

\* line.slice(6)
PrefixLen == 6

\* `data: ${JSON.stringify(data)}\n\n` of sendEvent
Frame(stage) == DataPrefix \o <<"{", stage, "}">> \o <<"\n", "\n">>

\* the index of the first "\n" of s, or 0
FirstNL(s) ==
  IF \E i \in 1..Len(s) : s[i] = "\n"
  THEN CHOOSE i \in 1..Len(s) : s[i] = "\n" /\ \A j \in 1..(i - 1) : s[j] # "\n"
  ELSE 0

\* chunk.split("\n")
RECURSIVE SplitLines(_)
SplitLines(s) ==
  IF FirstNL(s) = 0
  THEN <<s>>
  ELSE <<SubSeq(s, 1, FirstNL(s) - 1)>>
         \o SplitLines(SubSeq(s, FirstNL(s) + 1, Len(s)))

\* line.startsWith("data: ")
StartsWithData(line) ==
  /\ Len(line) >= PrefixLen
  /\ SubSeq(line, 1, PrefixLen) = DataPrefix

\* JSON.parse does not throw a SyntaxError on this text
Parses(text) ==
  /\ Len(text) = 3
  /\ text[1] = "{"
  /\ text[3] = "}"

\* the for loop over the lines of one chunk: a line that does not parse is
\* skipped, an error event throws out of the loop, any other event is put
\* into the status
RECURSIVE ForLines(_, _)
ForLines(lines, done) ==
  IF lines = <<>>
  THEN [applied |-> done, thrown |-> FALSE]
  ELSE LET text == SubSeq(Head(lines), PrefixLen + 1, Len(Head(lines)))
       IN  IF ~Parses(text)
           THEN ForLines(Tail(lines), done)
           ELSE IF text[2] = "error"
           THEN [applied |-> Append(done, "error"), thrown |-> TRUE]
           ELSE ForLines(Tail(lines), Append(done, text[2]))

InitClient ==
  /\ variant \in Variants
  /\ useSpotDl = FALSE
  /\ useYtDlp = FALSE
  /\ RequestIdle
  /\ NameIdle
  /\ PathsIdle
  /\ TokenIdle
  /\ TrackIdle
  /\ wire = <<>>
  /\ emitted = <<>>
  /\ ended = FALSE
  /\ applied = <<>>
  /\ reading = "loop"

\* sendEvent of the server: one frame is enqueued; a terminal event is
\* followed by controller.close()
Enqueue ==
  /\ ~ended
  /\ \E stage \in {"downloading", "complete", "error"} :
       /\ stage = "downloading" => Len(emitted) + 1 < MaxEvents
       /\ wire' = wire \o Frame(stage)
       /\ emitted' = Append(emitted, stage)
       /\ ended' = (stage \in {"complete", "error"})
  /\ UNCHANGED <<request, nameVars, pathVars, disconnected, tokenVars,
                 trackVars,
                 applied, reading>>

\* one turn of the while loop of startDownload: reader.read() returns some
\* of the characters in transit, which are decoded, split and applied
ReaderRead ==
  /\ reading = "loop"
  /\ wire # <<>>
  /\ \E n \in 1..Len(wire) :
       LET chunk == SubSeq(wire, 1, n)
           lines == SelectSeq(SplitLines(chunk), StartsWithData)
           after == ForLines(lines, applied)
       IN  /\ wire' = SubSeq(wire, n + 1, Len(wire))
           /\ applied' = after.applied
           /\ reading' = IF after.thrown THEN "caught" ELSE "loop"
  /\ UNCHANGED <<request, nameVars, pathVars, disconnected, tokenVars,
                 trackVars,
                 emitted, ended>>

\* reader.read() returns done: true
ReaderDone ==
  /\ reading = "loop"
  /\ wire = <<>>
  /\ ended
  /\ reading' = "done"
  /\ UNCHANGED <<request, nameVars, pathVars, disconnected, tokenVars,
                 trackVars,
                 wire, emitted, ended, applied>>

NextClient == Enqueue \/ ReaderRead \/ ReaderDone

SpecClient == InitClient /\ [][NextClient]_vars

\* C31: when the read loop of the page has ended, the page has applied the
\* events the server emitted, all of them and in emission order.
C31_AllEventsApplied ==
  reading \in {"done", "caught"} => applied = emitted

----------------------------------------------------------------------------
(* POST /api/track (src/src/app/layout.tsx lines 74-105) with              *)
(* extractTrackId and getTrackInfo of lib/spotify.ts.  A url string is a   *)
(* sequence of pieces: the literal "track/", an alphanumeric character     *)
(* "x", any other character "?".                                           *)

\* the pieces of a url string
MaxUrl == 3

UrlPieces == {"track/", "x", "?"}

UrlStrings == UNION {[1..n -> UrlPieces] : n \in 0..MaxUrl}

\* the values the url field of a body can have
UrlValues ==
  {[type |-> t, chars |-> <<>>] : t \in {"undefined", "number"}}
  \cup {[type |-> "string", chars |-> s] : s \in UrlStrings}

\* what a client can send: text that is no JSON, the JSON value null, or an
\* object with or without a url
Bodies ==
  {[kind |-> k, url |-> [type |-> "undefined", chars |-> <<>>]] :
     k \in {"notJson", "null"}}
  \cup {[kind |-> "object", url |-> u] : u \in UrlValues}

\* !url
Falsy(u) ==
  \/ u.type = "undefined"
  \/ u.type = "string" /\ u.chars = <<>>

\* the piece at i begins with a character of [a-zA-Z0-9]
Alnum(s, i) == i <= Len(s) /\ s[i] \in {"x", "track/"}

\* where /track\/([a-zA-Z0-9]+)/ matches first, or 0
MatchAt(s) ==
  IF \E i \in 1..Len(s) : s[i] = "track/" /\ Alnum(s, i + 1)
  THEN CHOOSE i \in 1..Len(s) :
         /\ s[i] = "track/" /\ Alnum(s, i + 1)
         /\ \A j \in 1..(i - 1) : ~(s[j] = "track/" /\ Alnum(s, j + 1))
  ELSE 0

\* the characters [a-zA-Z0-9]+ takes from position i on: the run stops at
\* the "/" of a "track/" and at any other character
RECURSIVE Capture(_, _)
Capture(s, i) ==
  IF i > Len(s) \/ s[i] = "?"
  THEN <<>>
  ELSE IF s[i] = "track/"
  THEN <<"track">>
  ELSE <<"x">> \o Capture(s, i + 1)

\* extractTrackId(url): match ? match[1] : null, with <<>> for null
ExtractTrackId(s) == IF MatchAt(s) = 0 THEN <<>> ELSE Capture(s, MatchAt(s) + 1)


\* NextResponse.json(..., { status }); raised is the error that was thrown
\* on the way, "" for none
Answer(status, error, info, raised) ==
  [status |-> status, error |-> error, info |-> info, raised |-> raised]

NoAnswer == Answer(0, "", <<>>, "")

\* the catch block of POST: status 500 with the message of the error
Caught(message) == Answer(500, message, <<>>, message)

InitTrack ==
  /\ variant = "lib"
  /\ useSpotDl = FALSE
  /\ useYtDlp = FALSE
  /\ RequestIdle
  /\ NameIdle
  /\ PathsIdle
  /\ TokenIdle
  /\ ClientIdle
  /\ body \in Bodies
  /\ trackPc = "request"
  /\ contacted = FALSE
  /\ answer = NoAnswer

\* POST up to "await getTrackInfo(trackId)"
TrackPost ==
  /\ trackPc = "request"
  /\ LET reply ==
           IF body.kind = "notJson" THEN Caught("SyntaxError")
           ELSE IF body.kind = "null" THEN Caught("TypeError")
           ELSE IF Falsy(body.url)
           THEN Answer(400, "Spotify URL is required", <<>>, "")
           ELSE IF body.url.type # "string" THEN Caught("TypeError")
           ELSE IF ExtractTrackId(body.url.chars) = <<>>
           THEN Answer(400, "Invalid Spotify track URL", <<>>, "")
           ELSE NoAnswer
     IN  /\ answer' = reply
         /\ trackPc' = IF reply = NoAnswer THEN "token" ELSE "done"
  /\ UNCHANGED <<request, nameVars, pathVars, disconnected, tokenVars,
                 clientVars, body, contacted>>

\* "const token = await getSpotifyToken()" of getTrackInfo
GetTrackInfo ==
  /\ trackPc = "token"
  /\ \E outcome \in {"cached", "fetched", "noCredentials", "authFailed"} :
       /\ contacted' = (outcome \in {"fetched", "authFailed"})
       /\ answer' = CASE outcome = "noCredentials" ->
                             Caught("Spotify credentials not configured")
                      [] outcome = "authFailed" ->
                             Caught("Failed to authenticate with Spotify")
                      [] OTHER -> answer
       /\ trackPc' = IF outcome \in {"cached", "fetched"}
                     THEN "catalog" ELSE "done"
  /\ UNCHANGED <<request, nameVars, pathVars, disconnected, tokenVars,
                 clientVars, body>>

\* the fetch of /v1/tracks/<trackId>, response.json() and the return of
\* POST
FetchTrack ==
  /\ trackPc = "catalog"
  /\ \E outcome \in {"ok", "notFound", "notOk", "rejected", "notJson"} :
       answer' = CASE outcome = "ok" ->
                        Answer(200, "", ExtractTrackId(body.url.chars), "")
                   [] outcome = "notFound" -> Caught("Track not found")
                   [] outcome = "notOk" ->
                        Caught("Failed to fetch track info from Spotify")
                   [] outcome = "rejected" -> Caught("fetch failed")
                   [] outcome = "notJson" -> Caught("SyntaxError")
  /\ contacted' = TRUE
  /\ trackPc' = "done"
  /\ UNCHANGED <<request, nameVars, pathVars, disconnected, tokenVars,
                 clientVars, body>>

NextTrack == TrackPost \/ GetTrackInfo \/ FetchTrack

SpecTrack == InitTrack /\ [][NextTrack]_vars

\* C35: POST /api/track answers 400 without a request to Spotify when the
\* body has no url or holds no track id, answers 500 with the message of
\* the error when something was thrown, and answers with the track info
\* only when nothing was thrown and the track was fetched.
C35_TrackAnswers ==
  trackPc = "done" =>
    /\ (\/ body.kind # "object"
        \/ Falsy(body.url)
        \/ body.url.type # "string"
        \/ ExtractTrackId(body.url.chars) = <<>>) =>
         /\ answer.status = 400
         /\ ~contacted
    /\ answer.raised # "" =>
         /\ answer.status = 500
         /\ answer.error = answer.raised
    /\ answer.info # <<>> =>
         /\ answer.status = 200
         /\ answer.raised = ""
         /\ contacted

====
